---- MODULE Spec2Model ----
(***************************************************************************)
(* A model of pykube's HTTPClient (src/pykube/http.py): session building,  *)
(* URL resolution (get_kwargs), error translation (raise_for_status) and   *)
(* the verb methods.                                                       *)
(*                                                                         *)
(* Python str values that the code takes apart (URLs and path segments)    *)
(* are sequences of one-character strings; values the code only compares   *)
(* or passes on (file paths, tokens, header values, bodies) are TLA+       *)
(* strings. A Python dict is a function whose DOMAIN is its key set.       *)
(***************************************************************************)
EXTENDS Integers, Sequences, FiniteSets, TLC

VARIABLES
    config,         \* the external Config object (mutable, shared by reference)
    snapshot,       \* history: the Config as it was when __init__ ran
    client,         \* the HTTPClient instance, or NoClient
    ctor,           \* outcome of __init__: "none", "ok", or the exception raised
    sessionsBuilt,  \* number of requests.Session() objects created so far
    mutations,      \* number of mutations of the external Config so far
    nTransport,     \* number of calls made on the transport session so far
    last            \* the last client operation: its inputs and its outcome

vars == <<config, snapshot, client, ctor, sessionsBuilt, mutations, nTransport, last>>

----------------------------------------------------------------------------
(* Bounds of the model. *)

MaxCalls == 2

MaxMutations == 1

----------------------------------------------------------------------------
(* Python str operations on character sequences. *)

Slash == <<"/">>

StartsWith(s, p) == Len(s) >= Len(p) /\ SubSeq(s, 1, Len(p)) = p

EndsWith(s, p) == Len(s) >= Len(p) /\ SubSeq(s, Len(s) - Len(p) + 1, Len(s)) = p

\* s[1:]
DropFirst(s) == SubSeq(s, 2, Len(s))

\* One step of posixpath.join: a component that starts with "/" discards
\* everything before it; otherwise exactly one "/" separates it from a
\* non-empty path that does not already end with one.
PosixJoinStep(path, b) ==
    IF StartsWith(b, Slash) THEN b
    ELSE IF path = <<>> \/ EndsWith(path, Slash) THEN path \o b
    ELSE path \o Slash \o b

RECURSIVE PosixJoinFrom(_, _)
PosixJoinFrom(path, rest) ==
    IF rest = <<>> THEN path
    ELSE PosixJoinFrom(PosixJoinStep(path, Head(rest)), Tail(rest))

\* posixpath.join(*bits)
PosixJoin(bits) == PosixJoinFrom(Head(bits), Tail(bits))

----------------------------------------------------------------------------
(* Python dict operations. *)

EmptyDict == [k \in {} |-> {}]

Has(d, k) == k \in DOMAIN d

\* d.pop(k) / d.pop(k, default): the dict that is left
Pop(d, k) == [x \in (DOMAIN d) \ {k} |-> d[x]]

\* d.pop(k, default) / d.get(k, default): the value
GetOr(d, k, default) == IF Has(d, k) THEN d[k] ELSE default

\* d[k] = v
Put(d, k, v) == [x \in (DOMAIN d) \cup {k} |-> IF x = k THEN v ELSE d[x]]

----------------------------------------------------------------------------
(* Python values. *)

\* None
PyNone == [isNone |-> TRUE]

\* a tuple (a, b, ...)
PyTuple(items) == [isNone |-> FALSE, items |-> items]

\* an exception instance: its class and its constructor arguments
Exception(type, args) == [type |-> type, args |-> args]

NoException == Exception("none", <<>>)

\* how a call ends: by returning a value or by raising an exception
Return(v) == [raised |-> FALSE, exc |-> NoException, value |-> v]

Raise(e) == [raised |-> TRUE, exc |-> e, value |-> PyNone]

\* d[k] on a dict without the key k
KeyError(k) == Exception("KeyError", <<k>>)

----------------------------------------------------------------------------
(* get_kwargs: URL resolution. *)

V1 == <<"v", "1">>

API == <<"/", "a", "p", "i">>

APIS == <<"/", "a", "p", "i", "s">>

ExtensionsPrefix == <<"e", "x", "t", "e", "n", "s", "i", "o", "n", "s", "/">>

BatchPrefix == <<"b", "a", "t", "c", "h", "/">>

NAMESPACES == <<"n", "a", "m", "e", "s", "p", "a", "c", "e", "s">>

PODS == <<"p", "o", "d", "s">>

UnknownVersionError ==
    Exception("TypeError", <<"unknown API version; base kwarg must be specified.">>)

\* The base of a version that has no default base and no "base" kwarg: the
\* code raises.
SelectBase_FallsBackToApis(version, kwargs) ==
    IF version = V1
    THEN [raised |-> FALSE, base |-> GetOr(kwargs, "base", API), kwargs |-> Pop(kwargs, "base")]
    ELSE [raised |-> FALSE, base |-> GetOr(kwargs, "base", APIS), kwargs |-> Pop(kwargs, "base")]

\* The if/elif chain on version: the base, and kwargs with "base" popped.
SelectBase(version, kwargs) ==
    IF version = V1
    THEN [raised |-> FALSE, base |-> GetOr(kwargs, "base", API), kwargs |-> Pop(kwargs, "base")]
    ELSE IF StartsWith(version, ExtensionsPrefix)
    THEN [raised |-> FALSE, base |-> GetOr(kwargs, "base", APIS), kwargs |-> Pop(kwargs, "base")]
    ELSE IF StartsWith(version, BatchPrefix)
    THEN [raised |-> FALSE, base |-> GetOr(kwargs, "base", APIS), kwargs |-> Pop(kwargs, "base")]
    ELSE IF ~Has(kwargs, "base")
    THEN [raised |-> TRUE, base |-> <<>>, kwargs |-> kwargs]
    ELSE [raised |-> FALSE, base |-> kwargs["base"], kwargs |-> Pop(kwargs, "base")]

\* As ExtendBits, reading the key with kwargs[key] instead of popping it.
ExtendBits_KeepsKey(bits, kwargs, key, label) ==
    IF Has(kwargs, key)
    THEN [bits |-> bits \o <<label, kwargs[key]>>, kwargs |-> kwargs]
    ELSE [bits |-> bits, kwargs |-> kwargs]

\* if key in kwargs: bits.extend([label, kwargs.pop(key)])
ExtendBits(bits, kwargs, key, label) ==
    IF Has(kwargs, key)
    THEN [bits |-> bits \o <<label, kwargs[key]>>, kwargs |-> Pop(kwargs, key)]
    ELSE [bits |-> bits, kwargs |-> kwargs]

\* url = kwargs.get("url", ""); if url.startswith("/"): url = url[1:]
UrlTail(kwargs) ==
    LET url == GetOr(kwargs, "url", <<>>)
    IN  IF StartsWith(url, Slash) THEN DropFirst(url) ELSE url

\* get_kwargs(self, **kwargs) on a client whose self.url is selfUrl. The
\* result carries the local list bits beside the returned dict.
get_kwargs(selfUrl, kwargs) ==
    LET version == GetOr(kwargs, "version", V1)
        sel     == SelectBase(version, Pop(kwargs, "version"))
    IN  IF sel.raised
        THEN [raised |-> TRUE, exc |-> UnknownVersionError, bits |-> <<>>, value |-> EmptyDict]
        ELSE LET ns   == ExtendBits(<<sel.base, version>>, sel.kwargs, "namespace", NAMESPACES)
                 pd   == ExtendBits(ns.bits, ns.kwargs, "pods", PODS)
                 bits == Append(pd.bits, UrlTail(pd.kwargs))
             IN  [raised |-> FALSE, exc |-> NoException, bits |-> bits,
                  value  |-> Put(pd.kwargs, "url", selfUrl \o PosixJoin(bits))]

\* The caller's own mapping after client.get_kwargs(**mapping): **kwargs
\* collects the keyword arguments into a new dict, so the pops and the
\* assignment inside the method act on that new dict.
CallerMappingAfter(kwargs, result) == kwargs

----------------------------------------------------------------------------
(* The external Config and the transport session built from it. *)

\* file.filename() of a file reference of the Config
Filename(file) == file.path

\* bool(value) of a str
Truthy(str) == str # ""

\* requests.Session(): a new session with the transport's defaults
NewSession(id) ==
    [id      |-> id,
     verify  |-> "True",
     cert    |-> PyNone,
     headers |-> ("User-Agent" :> "python-requests") @@ ("Accept-Encoding" :> "gzip, deflate")
                 @@ ("Accept" :> "*/*") @@ ("Connection" :> "keep-alive")]

\* s.verify after the certificate-authority step
SessionVerify(cfg, s) ==
    IF Has(cfg.cluster, "certificate-authority")
    THEN Filename(cfg.cluster["certificate-authority"])
    ELSE s.verify

\* As SessionHeaders, testing only the presence of the token.
SessionHeaders_AnyToken(cfg, s) ==
    IF Has(cfg.user, "token")
    THEN Put(s.headers, "Authorization", "Bearer " \o cfg.user["token"])
    ELSE s.headers

\* s.headers after the token step
SessionHeaders(cfg, s) ==
    IF Has(cfg.user, "token") /\ Truthy(cfg.user["token"])
    THEN Put(s.headers, "Authorization", "Bearer " \o cfg.user["token"])
    ELSE s.headers

\* As SessionCert, reading the key with user.get("client-key").
SessionCert_KeyOptional(cfg, s) ==
    IF Has(cfg.user, "client-certificate")
    THEN IF Has(cfg.user, "client-key")
         THEN Return(PyTuple(<<Filename(cfg.user["client-certificate"]),
                               Filename(cfg.user["client-key"])>>))
         ELSE Return(s.cert)
    ELSE Return(s.cert)

\* s.cert after the client-certificate step, or the exception of the step
SessionCert(cfg, s) ==
    IF Has(cfg.user, "client-certificate")
    THEN IF Has(cfg.user, "client-key")
         THEN Return(PyTuple(<<Filename(cfg.user["client-certificate"]),
                               Filename(cfg.user["client-key"])>>))
         ELSE Raise(KeyError("client-key"))
    ELSE Return(s.cert)

\* build_session(self) with self.config = cfg; id names the new session object
build_session(cfg, id) ==
    LET s    == NewSession(id)
        cert == SessionCert(cfg, s)
    IN  IF cert.raised THEN Raise(cert.exc)
        ELSE Return([id      |-> s.id,
                     verify  |-> SessionVerify(cfg, s),
                     cert    |-> cert.value,
                     headers |-> SessionHeaders(cfg, s)])

NoClient == [exists |-> FALSE]

\* HTTPClient(config): the new instance, or the exception of build_session.
\* self.config is the caller's Config object itself, not a copy.
HTTPClient(cfg, id) ==
    LET s == build_session(cfg, id)
    IN  IF s.raised THEN Raise(s.exc)
        ELSE Return([exists |-> TRUE, url |-> cfg.cluster["server"], session |-> s.value])

----------------------------------------------------------------------------
(* Responses of the transport and raise_for_status. *)

Response(status, headers, body) == [status |-> status, headers |-> headers, body |-> body]

\* requests' Response.raise_for_status(): the error of a 4xx or 5xx status
TransportError(resp) ==
    Exception("requests.exceptions.HTTPError", <<resp.status, resp.body>>)

ResponseRaiseForStatus(resp) ==
    IF 400 <= resp.status /\ resp.status < 600
    THEN Raise(TransportError(resp))
    ELSE Return(PyNone)

BodyStatus == "{\"kind\": \"Status\", \"message\": \"pods \\\"foo\\\" not found\"}"

BodyStatusNoMessage == "{\"kind\": \"Status\", \"reason\": \"NotFound\"}"

BodyEvent == "{\"kind\": \"Event\", \"message\": \"Back-off restarting\"}"

BodyNoKind == "{\"message\": \"boom\"}"

BodyArray == "[]"

BodyHtml == "<html>Bad Gateway</html>"

BodyEmpty == ""

JsonObject(members) == [jtype |-> "object", members |-> members]

JsonArray == [jtype |-> "array"]

\* resp.json() on the bodies above: the decoded value, or the decoder's
\* ValueError on text that is not JSON
ResponseJson(resp) ==
    CASE resp.body = BodyStatus ->
            Return(JsonObject([kind |-> "Status", message |-> "pods \"foo\" not found"]))
      [] resp.body = BodyStatusNoMessage ->
            Return(JsonObject([kind |-> "Status", reason |-> "NotFound"]))
      [] resp.body = BodyEvent ->
            Return(JsonObject([kind |-> "Event", message |-> "Back-off restarting"]))
      [] resp.body = BodyNoKind ->
            Return(JsonObject([message |-> "boom"]))
      [] resp.body = BodyArray ->
            Return(JsonArray)
      [] OTHER ->
            Raise(Exception("ValueError", <<"No JSON object could be decoded">>))

\* payload[key] on a decoded JSON value
Subscript(payload, key) ==
    IF payload.jtype = "object"
    THEN IF Has(payload.members, key) THEN Return(payload.members[key])
         ELSE Raise(KeyError(key))
    ELSE Raise(Exception("TypeError", <<"list indices must be integers">>))

\* As IsJsonContentType, comparing the media type without its parameters.
IsJsonContentType_MediaType(contentType) ==
    contentType \in {"application/json", "application/json; charset=utf-8"}

\* resp.headers["content-type"] == "application/json"
IsJsonContentType(contentType) == contentType = "application/json"

\* pykube.exceptions.HTTPError(message)
HTTPError(message) == Exception("pykube.exceptions.HTTPError", <<message>>)

\* The except block of raise_for_status: an exception raised inside it
\* replaces the one being handled; the bare raise re-raises the original.
ExceptBlock(resp, original) ==
    IF ~Has(resp.headers, "content-type") THEN Raise(KeyError("content-type"))
    ELSE IF ~IsJsonContentType(resp.headers["content-type"]) THEN Raise(original)
    ELSE LET payload == ResponseJson(resp)
         IN  IF payload.raised THEN Raise(payload.exc)
             ELSE LET kind == Subscript(payload.value, "kind")
                  IN  IF kind.raised THEN Raise(kind.exc)
                      ELSE IF kind.value # "Status" THEN Raise(original)
                      ELSE LET message == Subscript(payload.value, "message")
                           IN  IF message.raised THEN Raise(message.exc)
                               ELSE Raise(HTTPError(message.value))

\* raise_for_status(self, resp)
raise_for_status(resp) ==
    LET r == ResponseRaiseForStatus(resp)
    IN  IF r.raised THEN ExceptBlock(resp, r.exc) ELSE Return(PyNone)

----------------------------------------------------------------------------
(* The inputs the operations are applied to. *)

MergeDict(a, b) ==
    [k \in (DOMAIN a) \cup (DOMAIN b) |-> IF k \in DOMAIN b THEN b[k] ELSE a[k]]

\* "https://x:6443"
Server1 == <<"h", "t", "t", "p", "s", ":", "/", "/", "x", ":", "6", "4", "4", "3">>

\* "http://k8s:8080"
Server2 == <<"h", "t", "t", "p", ":", "/", "/", "k", "8", "s", ":", "8", "0", "8", "0">>

CAFile == [path |-> "/etc/kube/ca.pem"]

CertFile == [path |-> "/etc/kube/client.crt"]

KeyFile == [path |-> "/etc/kube/client.key"]

Clusters ==
    {("server" :> Server1),
     ("server" :> Server1) @@ ("certificate-authority" :> CAFile)}

TokenParts == {EmptyDict, ("token" :> ""), ("token" :> "s3cr3t")}

CertParts ==
    {EmptyDict,
     ("client-certificate" :> CertFile) @@ ("client-key" :> KeyFile),
     ("client-certificate" :> CertFile)}

Configs ==
    {[cluster |-> c, user |-> MergeDict(t, k)] : c \in Clusters, t \in TokenParts, k \in CertParts}

\* Configs of clients that serve the pure operations
ReadyConfigs ==
    {[cluster |-> ("server" :> srv), user |-> EmptyDict] : srv \in {Server1, Server2}}

NoConfig == [cluster |-> EmptyDict, user |-> EmptyDict]

\* What the owner of the Config may do to it behind the client's back.
MutationKinds == {"rotate-token", "move-server", "toggle-ca", "drop-key"}

Mutated(cfg, kind) ==
    CASE kind = "rotate-token" ->
            [cfg EXCEPT !.user = Put(@, "token", "r0tat3d")]
      [] kind = "move-server" ->
            [cfg EXCEPT !.cluster = Put(@, "server", Server2)]
      [] kind = "toggle-ca" ->
            [cfg EXCEPT !.cluster = IF Has(@, "certificate-authority")
                                    THEN Pop(@, "certificate-authority")
                                    ELSE Put(@, "certificate-authority", CAFile)]
      [] kind = "drop-key" ->
            [cfg EXCEPT !.user = Pop(@, "client-key")]

\* A kwarg that is not passed
Absent == <<"<absent>">>

\* "extensions/v1beta1", "batch/v1", and versions with no default base:
\* "v2", "extensions" (no "/"), "/v2"
Versions ==
    {Absent, V1,
     ExtensionsPrefix \o <<"v", "1", "b", "e", "t", "a", "1">>,
     BatchPrefix \o V1,
     <<"v", "2">>,
     <<"e", "x", "t", "e", "n", "s", "i", "o", "n", "s">>,
     <<"/", "v", "2">>}

\* "/oapi", "oapi", "/oapi/"
Bases ==
    {Absent, <<"/", "o", "a", "p", "i">>, <<"o", "a", "p", "i">>,
     <<"/", "o", "a", "p", "i", "/">>}

Default == <<"d", "e", "f", "a", "u", "l", "t">>

Foo == <<"f", "o", "o">>

Log == <<"l", "o", "g">>

Namespaces == {Absent, Default, Slash \o Default, Default \o Slash}

Pods == {Absent, Foo, Slash \o Foo, Foo \o Slash}

Urls == {Absent, <<>>, Log, Slash \o Log, Log \o Slash}

\* keyword arguments that get_kwargs does not consume
PassThrough ==
    {EmptyDict,
     [timeout |-> 30],
     [timeout |-> 30, headers |-> [Accept |-> "application/json"], data |-> "{}"]}

PathKwargs(v, b, n, p, u) ==
    LET all == [version |-> v, base |-> b, namespace |-> n, pods |-> p, url |-> u]
    IN  [k \in {x \in DOMAIN all : all[x] # Absent} |-> all[k]]

KwargsInputs ==
    {MergeDict(PathKwargs(v, b, n, p, u), o) :
        v \in Versions, b \in Bases, n \in Namespaces, p \in Pods, u \in Urls, o \in PassThrough}

\* The keyword arguments the verb methods are called with
VerbKwargs ==
    {[version |-> V1, namespace |-> Default, pods |-> Foo, url |-> Slash \o Log],
     [version |-> <<"v", "2">>, url |-> Log],
     [version |-> BatchPrefix \o V1, namespace |-> Default, timeout |-> 30]}

Statuses == {200, 204, 301, 404, 500, 503}

HeaderSets ==
    {EmptyDict,
     ("content-type" :> "application/json"),
     ("content-type" :> "application/json; charset=utf-8"),
     ("content-type" :> "text/plain")}

Bodies ==
    {BodyStatus, BodyStatusNoMessage, BodyEvent, BodyNoKind, BodyArray, BodyHtml, BodyEmpty}

Responses == {Response(st, h, b) : st \in Statuses, h \in HeaderSets, b \in Bodies}

NoResponse == Response(0, EmptyDict, "")

\* What a call on the transport session may end in
TransportOutcomes ==
    {Return(Response(200, ("content-type" :> "application/json"), BodyEvent)),
     Return(Response(404, ("content-type" :> "application/json"), BodyStatus)),
     Raise(Exception("requests.exceptions.ConnectionError", <<"connection refused">>))}

\* The responses raise_for_status is applied to during the life of a client
SomeResponses ==
    {Response(200, ("content-type" :> "application/json"), BodyEvent),
     Response(404, ("content-type" :> "application/json"), BodyStatus),
     Response(500, ("content-type" :> "text/plain"), BodyHtml),
     Response(503, EmptyDict, BodyEmpty)}

----------------------------------------------------------------------------
(* The state machine. *)

NotConstructed == [pending |-> TRUE]

Verbs == {"request", "get", "options", "head", "post", "put", "patch", "delete"}

\* The record of one client operation.
Op(op, args, kw, callerAfter, bits, resp, tcalls, out) ==
    [op |-> op, args |-> args, kw |-> kw, callerAfter |-> callerAfter, bits |-> bits,
     resp |-> resp, tcalls |-> tcalls, out |-> out]

NoOp == Op("none", <<>>, EmptyDict, EmptyDict, <<>>, NoResponse, <<>>, Return(PyNone))

\* One call session.<method>(*args, **params) and what it ended in.
SessionCall(session, method, args, params, outcome) ==
    [session |-> session.id, method |-> method, args |-> args, params |-> params,
     result |-> outcome]

Init ==
    /\ config \in Configs
    /\ snapshot = NoConfig
    /\ client = NoClient
    /\ ctor = NotConstructed
    /\ sessionsBuilt = 0
    /\ mutations = 0
    /\ nTransport = 0
    /\ last = NoOp

\* The state after HTTPClient(config) on a Config with the server alone.
InitReady ==
    /\ config \in ReadyConfigs
    /\ snapshot = config
    /\ client = HTTPClient(config, 1).value
    /\ ctor = Return(PyNone)
    /\ sessionsBuilt = 1
    /\ mutations = 0
    /\ nTransport = 0
    /\ last = NoOp

\* client = HTTPClient(config)
Construct ==
    /\ ctor = NotConstructed
    /\ LET r == HTTPClient(config, sessionsBuilt + 1)
       IN  /\ ctor' = IF r.raised THEN Raise(r.exc) ELSE Return(PyNone)
           /\ client' = IF r.raised THEN NoClient ELSE r.value
    /\ sessionsBuilt' = sessionsBuilt + 1
    /\ snapshot' = config
    /\ UNCHANGED <<config, mutations, nTransport, last>>

\* The owner of the Config changes it; the client holds the same object.
MutateConfig(kind) ==
    /\ mutations < MaxMutations
    /\ config' = Mutated(config, kind)
    /\ mutations' = mutations + 1
    /\ UNCHANGED <<snapshot, client, ctor, sessionsBuilt, nTransport, last>>

\* client.get_kwargs(**kw)
GetKwargsCall(kw) ==
    /\ client.exists
    /\ LET r == get_kwargs(client.url, kw)
       IN  last' = Op("get_kwargs", <<>>, kw, CallerMappingAfter(kw, r), r.bits, NoResponse,
                      <<>>, IF r.raised THEN Raise(r.exc) ELSE Return(r.value))
    /\ UNCHANGED <<config, snapshot, client, ctor, sessionsBuilt, mutations, nTransport>>

\* client.raise_for_status(resp)
RaiseForStatusCall(resp) ==
    /\ client.exists
    /\ last' = Op("raise_for_status", <<>>, EmptyDict, EmptyDict, <<>>, resp, <<>>,
                  raise_for_status(resp))
    /\ UNCHANGED <<config, snapshot, client, ctor, sessionsBuilt, mutations, nTransport>>

\* As Dispatch, with the session built anew from self.config before the call.
Dispatch_RebuildsSession(op, method, args, kw, outcome) ==
    /\ client.exists
    /\ nTransport < MaxCalls
    /\ LET r == get_kwargs(client.url, kw)
           s == build_session(config, sessionsBuilt + 1)
       IN  /\ ~s.raised
           /\ client' = [client EXCEPT !.session = s.value]
           /\ sessionsBuilt' = sessionsBuilt + 1
           /\ IF r.raised
              THEN /\ last' = Op(op, args, kw, CallerMappingAfter(kw, r), r.bits, NoResponse,
                                 <<>>, Raise(r.exc))
                   /\ nTransport' = nTransport
              ELSE /\ last' = Op(op, args, kw, CallerMappingAfter(kw, r), r.bits, NoResponse,
                                 <<SessionCall(s.value, method, args, r.value, outcome)>>,
                                 outcome)
                   /\ nTransport' = nTransport + 1
    /\ UNCHANGED <<config, snapshot, ctor, mutations>>

\* As Dispatch, with self.raise_for_status(resp) applied to the response.
Dispatch_ChecksStatus(op, method, args, kw, outcome) ==
    /\ client.exists
    /\ nTransport < MaxCalls
    /\ LET r == get_kwargs(client.url, kw)
       IN  IF r.raised
           THEN /\ last' = Op(op, args, kw, CallerMappingAfter(kw, r), r.bits, NoResponse,
                              <<>>, Raise(r.exc))
                /\ nTransport' = nTransport
           ELSE /\ last' = Op(op, args, kw, CallerMappingAfter(kw, r), r.bits, NoResponse,
                              <<SessionCall(client.session, method, args, r.value, outcome)>>,
                              IF outcome.raised THEN outcome
                              ELSE IF raise_for_status(outcome.value).raised
                                   THEN raise_for_status(outcome.value)
                                   ELSE outcome)
                /\ nTransport' = nTransport + 1
    /\ UNCHANGED <<config, snapshot, client, ctor, sessionsBuilt, mutations>>

\* return self.session.<method>(*args, **self.get_kwargs(**kwargs)): the
\* body shared by request and the seven verb methods. get_kwargs runs first;
\* when it raises, the session is not called. outcome is what the session's
\* call ends in.
Dispatch(op, method, args, kw, outcome) ==
    /\ client.exists
    /\ nTransport < MaxCalls
    /\ LET r == get_kwargs(client.url, kw)
       IN  IF r.raised
           THEN /\ last' = Op(op, args, kw, CallerMappingAfter(kw, r), r.bits, NoResponse,
                              <<>>, Raise(r.exc))
                /\ nTransport' = nTransport
           ELSE /\ last' = Op(op, args, kw, CallerMappingAfter(kw, r), r.bits, NoResponse,
                              <<SessionCall(client.session, method, args, r.value, outcome)>>,
                              outcome)
                /\ nTransport' = nTransport + 1
    /\ UNCHANGED <<config, snapshot, client, ctor, sessionsBuilt, mutations>>

request(args, kw, outcome) == Dispatch("request", "request", args, kw, outcome)

get(args, kw, outcome) == Dispatch("get", "get", args, kw, outcome)

options(args, kw, outcome) == Dispatch("options", "options", args, kw, outcome)

head(args, kw, outcome) == Dispatch("head", "head", args, kw, outcome)

post(args, kw, outcome) == Dispatch("post", "post", args, kw, outcome)

put(args, kw, outcome) == Dispatch("put", "put", args, kw, outcome)

patch(args, kw, outcome) == Dispatch("patch", "patch", args, kw, outcome)

delete(args, kw, outcome) == Dispatch("delete", "delete", args, kw, outcome)

\* The positional arguments: the HTTP method for request, none for the rest.
RequestArgs == {<<"GET">>, <<"DELETE">>}

Next ==
    \/ Construct
    \/ \E kind \in MutationKinds : MutateConfig(kind)
    \/ \E kw \in VerbKwargs : GetKwargsCall(kw)
    \/ \E resp \in SomeResponses : RaiseForStatusCall(resp)
    \/ \E args \in RequestArgs, kw \in VerbKwargs, o \in TransportOutcomes : request(args, kw, o)
    \/ \E kw \in VerbKwargs, o \in TransportOutcomes : get(<<>>, kw, o)
    \/ \E kw \in VerbKwargs, o \in TransportOutcomes : options(<<>>, kw, o)
    \/ \E kw \in VerbKwargs, o \in TransportOutcomes : head(<<>>, kw, o)
    \/ \E kw \in VerbKwargs, o \in TransportOutcomes : post(<<>>, kw, o)
    \/ \E kw \in VerbKwargs, o \in TransportOutcomes : put(<<>>, kw, o)
    \/ \E kw \in VerbKwargs, o \in TransportOutcomes : patch(<<>>, kw, o)
    \/ \E kw \in VerbKwargs, o \in TransportOutcomes : delete(<<>>, kw, o)

Spec == Init /\ [][Next]_vars

\* get_kwargs alone: the initial state draws the keyword arguments of the
\* one call that is made.
InitUrl ==
    /\ InitReady!1 /\ InitReady!2 /\ InitReady!3 /\ InitReady!4
    /\ InitReady!5 /\ InitReady!6 /\ InitReady!7
    /\ \E kw \in KwargsInputs : last = [NoOp EXCEPT !.op = "pending", !.kw = kw]

NextUrl == last.op = "pending" /\ GetKwargsCall(last.kw)

SpecUrl == InitUrl /\ [][NextUrl]_vars

\* raise_for_status alone: the initial state draws the response of the one
\* call that is made.
InitStatus ==
    /\ InitReady!1 /\ InitReady!2 /\ InitReady!3 /\ InitReady!4
    /\ InitReady!5 /\ InitReady!6 /\ InitReady!7
    /\ \E resp \in Responses : last = [NoOp EXCEPT !.op = "pending", !.resp = resp]

NextStatus == last.op = "pending" /\ RaiseForStatusCall(last.resp)

SpecStatus == InitStatus /\ [][NextStatus]_vars

----------------------------------------------------------------------------
(* Claims about get_kwargs, checked under SpecUrl. *)

GetKwargsDone == last.op = "get_kwargs"

VersionOf(kw) == GetOr(kw, "version", V1)

HasDefaultBase(version) ==
    \/ version = V1
    \/ StartsWith(version, ExtensionsPrefix)
    \/ StartsWith(version, BatchPrefix)

\* The segments in the order the contract lists them.
ContractBits(kw) ==
    LET version == VersionOf(kw)
        base    == IF Has(kw, "base") THEN kw["base"]
                   ELSE IF version = V1 THEN API ELSE APIS
        url     == GetOr(kw, "url", <<>>)
    IN  <<base, version>>
        \o (IF Has(kw, "namespace") THEN <<NAMESPACES, kw["namespace"]>> ELSE <<>>)
        \o (IF Has(kw, "pods") THEN <<PODS, kw["pods"]>> ELSE <<>>)
        \o <<IF StartsWith(url, Slash) THEN DropFirst(url) ELSE url>>

\* Segments joined in order with exactly one "/" between neighbours: a "/"
\* that ends the path so far or begins the next segment is that separator.
RECURSIVE OrderedJoinFrom(_, _)
OrderedJoinFrom(path, rest) ==
    IF rest = <<>> THEN path
    ELSE LET b    == Head(rest)
             next == IF StartsWith(b, Slash) THEN DropFirst(b) ELSE b
         IN  OrderedJoinFrom(IF EndsWith(path, Slash) THEN path \o next
                             ELSE path \o Slash \o next,
                             Tail(rest))

OrderedJoin(bits) == OrderedJoinFrom(Head(bits), Tail(bits))

\* C1: for a version with a default base (v1, extensions/..., batch/...),
\* get_kwargs returns the url cluster_server_url + the "/"-joined path of
\* [base, version], ["namespaces", namespace] if given, ["pods", pods] if
\* given, and the url tail less one leading "/", in that order.
C1_UrlIsOrderedJoin ==
    (GetKwargsDone /\ HasDefaultBase(VersionOf(last.kw)))
        => /\ ~last.out.raised
           /\ last.out.value["url"] = client.url \o OrderedJoin(ContractBits(last.kw))

LeadingVariants(seg) ==
    IF StartsWith(seg, Slash) THEN {DropFirst(seg)} ELSE {Slash \o seg}

TrailingVariants(seg) ==
    IF EndsWith(seg, Slash) THEN {SubSeq(seg, 1, Len(seg) - 1)} ELSE {seg \o Slash}

\* The keyword arguments with the slashes of one segment varied. Only the
\* variations at a separator between two segments are taken: not the "/" at
\* the very end of the url tail, nor the "/" that begins base.
SegmentVariants(kw) ==
    UNION {{Put(kw, k, v) : v \in LeadingVariants(kw[k]) \cup TrailingVariants(kw[k])} :
              k \in {"namespace", "pods"} \cap DOMAIN kw}
        \cup (IF Has(kw, "base")
              THEN {Put(kw, "base", v) : v \in TrailingVariants(kw["base"])}
              ELSE {})
        \cup (IF Has(kw, "url")
              THEN {Put(kw, "url", v) : v \in LeadingVariants(kw["url"])}
              ELSE {})

\* C3: adding or removing a leading or trailing "/" on url, base, namespace
\* or pods yields the same final URL, with no earlier segment lost.
C3_SlashVariantsSameUrl ==
    (GetKwargsDone /\ ~last.out.raised)
        => \A kw2 \in SegmentVariants(last.kw) :
              LET r == get_kwargs(client.url, kw2)
              IN  ~r.raised /\ r.value["url"] = last.out.value["url"]

Consumed == {"version", "base", "namespace", "pods"}

\* C6: the returned parameters hold no consumed key (version, base,
\* namespace, pods), hold url with the final absolute URL, and hold every
\* other key of the call with its value; no other key is added and the
\* caller's own mapping is as it was.
C6_ConsumedKeysRemoved ==
    (GetKwargsDone /\ ~last.out.raised)
        => /\ DOMAIN last.out.value = ((DOMAIN last.kw) \ Consumed) \cup {"url"}
           /\ \A k \in (DOMAIN last.kw) \ (Consumed \cup {"url"}) :
                 last.out.value[k] = last.kw[k]
           /\ last.out.value["url"] = client.url \o PosixJoin(last.bits)
           /\ StartsWith(last.out.value["url"], snapshot.cluster["server"])
           /\ last.callerAfter = last.kw

C6_Witness ==
    /\ GetKwargsDone
    /\ ~last.out.raised
    /\ Consumed \cup {"url", "timeout", "headers"} \subseteq DOMAIN last.kw
    /\ DOMAIN last.out.value = {"url", "timeout", "headers", "data"}

----------------------------------------------------------------------------
(* Claims about raise_for_status, checked under SpecStatus. *)

RaiseForStatusDone == last.op = "raise_for_status"

NonSuccess(resp) == resp.status >= 400

ExactlyJson(resp) ==
    Has(resp.headers, "content-type") /\ resp.headers["content-type"] = "application/json"

\* The body decodes and the decoded payload has kind == "Status".
DecodesToStatus(resp) ==
    LET payload == ResponseJson(resp)
    IN  /\ ~payload.raised
        /\ payload.value.jtype = "object"
        /\ Has(payload.value.members, "kind")
        /\ payload.value.members["kind"] = "Status"

RaisedHTTPError == last.out.raised /\ last.out.exc.type = "pykube.exceptions.HTTPError"

\* C4: for a non-success response, in every case other than a decodable
\* application/json body with kind == "Status" (another content type, no
\* content-type header, a body that does not decode, JSON without kind or
\* with another kind), the original transport error is re-raised unchanged.
C4_OriginalErrorReraised ==
    (RaiseForStatusDone /\ NonSuccess(last.resp)
        /\ ~(ExactlyJson(last.resp) /\ DecodesToStatus(last.resp)))
        => /\ last.out.raised
           /\ last.out.exc = TransportError(last.resp)

----------------------------------------------------------------------------
(* Claims about the client's life, checked under Spec. *)

\* C7: a verb method or request makes exactly one call, of the session
\* method of its own name, with its positional arguments and the parameters
\* get_kwargs returns, and ends as that call ends: the response is returned
\* as it is, non-success included, and an error of the call is raised. When
\* get_kwargs raises, no call is made and that error is raised.
C7_OneTransportCall ==
    (last.op \in Verbs) =>
        LET r == get_kwargs(client.url, last.kw)
        IN  IF r.raised
            THEN last.tcalls = <<>> /\ last.out = Raise(r.exc)
            ELSE /\ Len(last.tcalls) = 1
                 /\ last.tcalls[1].method = last.op
                 /\ last.tcalls[1].args = last.args
                 /\ last.tcalls[1].params = r.value
                 /\ last.tcalls[1].session = client.session.id
                 /\ last.out = last.tcalls[1].result

C7_Witness ==
    /\ last.op = "delete"
    /\ Len(last.tcalls) = 1
    /\ ~last.out.raised
    /\ last.out.value.status = 404

CertKey == "client-certificate"

\* C8: with user.client-certificate present and user.client-key absent the
\* construction raises (the KeyError of the missing key) and there is no
\* client; with both present the session's cert is the pair (certificate
\* path, key path).
C8_CertNeedsKey ==
    (ctor # NotConstructed) =>
        /\ (Has(snapshot.user, CertKey) /\ ~Has(snapshot.user, "client-key"))
              => /\ ctor.raised
                 /\ ctor.exc = Exception("KeyError", <<"client-key">>)
                 /\ client = NoClient
        /\ (Has(snapshot.user, CertKey) /\ Has(snapshot.user, "client-key"))
              => /\ ~ctor.raised
                 /\ client.exists
                 /\ client.session.cert
                       = PyTuple(<<snapshot.user[CertKey].path,
                                   snapshot.user["client-key"].path>>)

C8_Witness ==
    /\ ctor # NotConstructed
    /\ ctor.raised
    /\ client = NoClient
    /\ Has(snapshot.user, CertKey)

\* C9: each of the three session settings follows from its own Config entry
\* alone: verify is the CA file path iff certificate-authority is present
\* (else the transport default), the Authorization header is "Bearer <token>"
\* iff token is present and non-empty (else there is none, and the other
\* headers are the transport's), and cert is set iff client-certificate is
\* present.
C9_SettingsIndependent ==
    client.exists =>
        /\ client.session.verify
              = IF Has(snapshot.cluster, "certificate-authority")
                THEN snapshot.cluster["certificate-authority"].path
                ELSE "True"
        /\ Has(client.session.headers, "Authorization")
              <=> (Has(snapshot.user, "token") /\ snapshot.user["token"] # "")
        /\ Has(client.session.headers, "Authorization")
              => client.session.headers["Authorization"] = "Bearer " \o snapshot.user["token"]
        /\ Pop(client.session.headers, "Authorization") = NewSession(1).headers
        /\ (client.session.cert # PyNone) <=> Has(snapshot.user, CertKey)

C9_Witness ==
    /\ client.exists
    /\ client.session.verify = "/etc/kube/ca.pem"
    /\ Has(client.session.headers, "Authorization")
    /\ client.session.headers["Authorization"] = "Bearer s3cr3t"
    /\ client.session.cert = PyTuple(<<"/etc/kube/client.crt", "/etc/kube/client.key">>)

\* C10: whatever calls are made and however the Config is changed
\* afterwards, the client keeps the one session built at construction, with
\* the settings and the base URL of the Config as it was then; no step
\* changes the client, and no step other than the owner's own mutation
\* changes the Config.
C10_SessionFixedAtConstruction ==
    /\ [](client.exists =>
            /\ sessionsBuilt = 1
            /\ client.url = snapshot.cluster["server"]
            /\ client.session = build_session(snapshot, 1).value)
    /\ [][/\ client.exists => client' = client
          /\ mutations' = mutations => config' = config]_vars

C10_Witness ==
    /\ client.exists
    /\ config.cluster["server"] # snapshot.cluster["server"]
    /\ last.op \in Verbs
    /\ nTransport >= 1

====
